---- MODULE Spec2Model ----
(***************************************************************************)
(* Manufacturing ERP: the Engineering Change Order (ECO) state machine of  *)
(* models/BOM_management.py and the BOM lines it mutates, and the          *)
(* production plans of models/production_planning.py with their scheduler. *)
(*                                                                         *)
(* One ECO record and its target BOM are modelled.  Every public method of *)
(* EngineeringChange and of ECORejectionWizard is one action; the record   *)
(* store's write() runs the @api.constrains checks of the fields it writes *)
(* and rejects the write as a whole when one raises.  The methods open no  *)
(* savepoint, so what a method wrote before it raises stays written.       *)
(*                                                                         *)
(* Every production plan method is one action as well; the plans are a     *)
(* small set of records that the scheduler searches by state.              *)
(*                                                                         *)
(* Dates are day numbers, datetimes are hours; 0 stands for an unset       *)
(* (False) field.                                                          *)
(***************************************************************************)
EXTENDS Integers, Sequences, FiniteSets, TLC

VARIABLES
    state,                 \* EngineeringChange.state
    change_type,           \* EngineeringChange.change_type
    change_line_ids,       \* EngineeringChange.change_line_ids, in sequence order
    approved_by,           \* EngineeringChange.approved_by ("none" when unset)
    approval_date,         \* EngineeringChange.approval_date (0 when unset)
    effective_date,        \* EngineeringChange.effective_date (0 when unset)
    rejection_reason,      \* EngineeringChange.rejection_reason ("" when unset)
    implementation_notes,  \* day stamped into EngineeringChange.implementation_notes (0 when unset)
    bom_line_ids,          \* mrp.bom.line records of the target BOM, in id order
    wizard,                \* the ECORejectionWizard record, NoWizard when none exists
    today,                 \* fields.Date.today()
    last,                  \* the last call on the ECO: method, calling user, error raised
    plans,                 \* the ProductionPlan records, by id
    productions,           \* the mrp.production records created, in order of creation
    now,                   \* fields.Datetime.now(), in hours
    plan_call,             \* the last call on a plan: method, plan, error raised
    boms,                  \* the mrp.bom records with their stored computed fields, by id
    standard_price,        \* product.product.standard_price, by product
    costs_hour,            \* mrp.workcenter.costs_hour, by work center
    bom_call               \* the last change to a BOM: operation, BOM, fields recomputed

vars == <<state, change_type, change_line_ids, approved_by, approval_date,
          effective_date, rejection_reason, implementation_notes, bom_line_ids,
          wizard, today, last, plans, productions, now, plan_call,
          boms, standard_price, costs_hour, bom_call>>

eco_vars == <<state, change_type, change_line_ids, approved_by, approval_date,
              effective_date, rejection_reason, implementation_notes, bom_line_ids,
              wizard, today, last>>

plan_vars == <<plans, productions, now, plan_call>>

bom_vars == <<boms, standard_price, costs_hour, bom_call>>

eco_fields == <<state, change_type, change_line_ids, approved_by, approval_date,
                effective_date, rejection_reason, implementation_notes>>

----------------------------------------------------------------------------
(* Bounds of the model *)

MaxDay == 2
MaxLines == 2
MaxHour == 3
MaxProductions == 2
MaxBomLines == 2
MaxOps == 1

Users == {"mgr", "usr"}
Managers == {"mgr"}
Products == {"p1", "p2"}
CurrentQtys == {0, 1}
NewQtys == {1, 2}
Reasons == {"", "bad"}
NoWizard == [eco_id |-> "none", rejection_reason |-> ""]
WideQtys == -1..2
PlanIds == {1, 2, 3}
PlannedHours == {1, 2}
Boms == {"none", "bom1"}
BomIds == {1, 2, 3, 4}
BomProducts == {"p1", "p2", "p3", "p4"}
AllProducts == BomProducts \cup {"raw"}
WorkCenters == {"wc"}
Prices == {5, 10}
HourCosts == {0, 60}
TimeCycles == {0, 30}
BomQtys == {1, 2}

----------------------------------------------------------------------------
(* Field domains *)

States == {"draft", "review", "approved", "implemented", "rejected", "cancelled"}
ChangeTypes == {"addition", "removal", "modification", "process", "routing", "specification"}
LineActions == {"add", "remove", "modify"}
LineChangeTypes == {"addition", "removal", "modification"}

LineInputs == [product_id : Products, action : LineActions,
               current_qty : CurrentQtys, new_qty : NewQtys]

----------------------------------------------------------------------------
(* Constraints *)

\* _check_effective_date with the comparison left out
M_CheckEffectiveDate_NoComparison(eff, appr) == TRUE

\* _check_effective_date: TRUE when the constraint raises nothing
CheckEffectiveDate(eff, appr) ==
    ~(eff # 0 /\ appr # 0 /\ eff < appr)

\* _check_change_lines: TRUE when the constraint raises nothing
CheckChangeLines(st, lines) ==
    ~(st \in {"approved", "implemented"} /\ lines = <<>>)

\* _check_quantities: TRUE when the constraint raises nothing
CheckQuantities(line) ==
    /\ ~(line.action = "add" /\ line.current_qty > 0)
    /\ ~(line.action = "remove" /\ line.current_qty <= 0)
    /\ ~(line.action = "modify" /\ line.current_qty <= 0)
    /\ ~(line.new_qty < 0)

\* has_group answering yes for every user
M_HasGroupManager_AnyUser(u) == TRUE

\* env.user.has_group('mrp.group_mrp_manager')
HasGroupManager(u) == u \in Managers

----------------------------------------------------------------------------
(* Applying change lines to the BOM *)

\* search([('bom_id','=',bom),('product_id','=',p)], limit=1): index of the
\* first line of the product, 0 when there is none
SearchBomLine(bom, p) ==
    IF \E i \in 1..Len(bom) : bom[i].product_id = p
    THEN CHOOSE i \in 1..Len(bom) :
            /\ bom[i].product_id = p
            /\ \A j \in 1..(i - 1) : bom[j].product_id # p
    ELSE 0

RemoveAt(s, i) == [j \in 1..(Len(s) - 1) |-> IF j < i THEN s[j] ELSE s[j + 1]]

\* _add_component_to_bom without the search for an existing line
M_AddComponentToBom_NoSearch(bom, line) ==
    [ok |-> TRUE,
     bom |-> Append(bom, [product_id |-> line.product_id,
                          product_qty |-> line.new_qty])]

\* _add_component_to_bom: [ok, bom]
AddComponentToBom(bom, line) ==
    IF SearchBomLine(bom, line.product_id) # 0
    THEN [ok |-> FALSE, bom |-> bom]
    ELSE [ok |-> TRUE,
          bom |-> Append(bom, [product_id |-> line.product_id,
                               product_qty |-> line.new_qty])]

\* _remove_component_from_bom: [ok, bom]
RemoveComponentFromBom(bom, line) ==
    LET i == SearchBomLine(bom, line.product_id) IN
    IF i = 0
    THEN [ok |-> FALSE, bom |-> bom]
    ELSE [ok |-> TRUE, bom |-> RemoveAt(bom, i)]

\* _modify_component_in_bom: [ok, bom]; the quantity is written only when
\* the line's new_qty differs from the line's current_qty
ModifyComponentInBom(bom, line) ==
    LET i == SearchBomLine(bom, line.product_id) IN
    IF i = 0
    THEN [ok |-> FALSE, bom |-> bom]
    ELSE [ok |-> TRUE,
          bom |-> IF line.new_qty # line.current_qty
                  THEN [bom EXCEPT ![i].product_qty = line.new_qty]
                  ELSE bom]

\* the dispatch on line.action in the loop body of _apply_changes_to_bom
ApplyLine(bom, line) ==
    CASE line.action = "add" -> AddComponentToBom(bom, line)
      [] line.action = "remove" -> RemoveComponentFromBom(bom, line)
      [] line.action = "modify" -> ModifyComponentInBom(bom, line)
      [] OTHER -> [ok |-> TRUE, bom |-> bom]

\* _apply_changes_to_bom from line k on: [ok, bom, failed], failed being the
\* position of the line that raised (0 when none did).  The loop stops at
\* the first line that raises; the BOM keeps what the earlier lines did.
RECURSIVE ApplyFrom(_, _, _)
ApplyFrom(bom, lines, k) ==
    IF k > Len(lines)
    THEN [ok |-> TRUE, bom |-> bom, failed |-> 0]
    ELSE LET r == ApplyLine(bom, lines[k]) IN
         IF r.ok
         THEN ApplyFrom(r.bom, lines, k + 1)
         ELSE [ok |-> FALSE, bom |-> r.bom, failed |-> k]

\* _apply_changes_to_bom inside a savepoint: a line that raises undoes the
\* lines applied before it
M_ApplyChangesToBom_Savepoint(bom, lines) ==
    LET r == ApplyFrom(bom, lines, 1) IN
    IF r.ok THEN r ELSE [r EXCEPT !.bom = bom]

ApplyChangesToBom(bom, lines) == ApplyFrom(bom, lines, 1)

----------------------------------------------------------------------------
(* Calls *)

\* a call on the ECO: the method, the calling user, the error raised, and
\* what the call posted to the chatter and scheduled as activities
Call(op, u, err) == [op |-> op, user |-> u, err |-> err, posted |-> <<>>]

\* _track_state_change: the message posted for the new state, then the
\* notification of the reviewers or of the requester
TrackStateChange(old_state, new_state) ==
    <<[call |-> "message_post", state |-> new_state]>>
        \o (IF new_state = "review"
            THEN <<[call |-> "_notify_reviewers", state |-> new_state]>>
            ELSE IF new_state \in {"approved", "rejected"}
            THEN <<[call |-> "_notify_requester", state |-> new_state]>>
            ELSE <<>>)

\* the override of write: a write of state tracks the change, when the new
\* state differs from the old one, before the record store runs the write
\* and its constraints
Tracked(call, old_state, new_state) ==
    [call EXCEPT !.posted = IF old_state # new_state
                            THEN TrackStateChange(old_state, new_state)
                            ELSE <<>>]

\* a call that raises before writing anything
Raise(op, u, err) ==
    /\ last' = Call(op, u, err)
    /\ UNCHANGED <<eco_fields, bom_line_ids, wizard, today, plan_vars, bom_vars>>

\* a call whose write of new_state is rejected by a constraint: the change
\* was tracked, nothing is written
RaiseTracked(op, u, err, new_state) ==
    /\ last' = Tracked(Call(op, u, err), state, new_state)
    /\ UNCHANGED <<eco_fields, bom_line_ids, wizard, today, plan_vars, bom_vars>>

\* action_submit_for_review without the check of the change lines
M_ActionSubmitForReview_NoLineCheck ==
    /\ state' = "review"
    /\ last' = Tracked(Call("action_submit_for_review", "none", "none"),
                       state, "review")
    /\ UNCHANGED <<change_type, change_line_ids, approved_by, approval_date,
                   effective_date, rejection_reason, implementation_notes,
                   bom_line_ids, wizard, today, plan_vars, bom_vars>>

\* action_submit_for_review
ActionSubmitForReview ==
    IF change_line_ids = <<>> /\ change_type \in LineChangeTypes
    THEN Raise("action_submit_for_review", "none", "UserError")
    ELSE /\ state' = "review"
         /\ last' = Tracked(Call("action_submit_for_review", "none", "none"),
                            state, "review")
         /\ UNCHANGED <<change_type, change_line_ids, approved_by, approval_date,
                        effective_date, rejection_reason, implementation_notes,
                        bom_line_ids, wizard, today, plan_vars, bom_vars>>

\* action_approve setting effective_date to today whether or not it is set
M_ActionApprove_OverwritesEffectiveDate(u) ==
    IF ~HasGroupManager(u)
    THEN Raise("action_approve", u, "UserError")
    ELSE IF ~CheckEffectiveDate(effective_date, today)
    THEN RaiseTracked("action_approve", u, "ValidationError", "approved")
    ELSE /\ state' = "approved"
         /\ approved_by' = u
         /\ approval_date' = today
         /\ effective_date' = today
         /\ last' = Tracked(Call("action_approve", u, "none"), state, "approved")
         /\ UNCHANGED <<change_type, change_line_ids, rejection_reason,
                        implementation_notes, bom_line_ids, wizard, today, plan_vars, bom_vars>>

\* action_approve: the write of state, approved_by and approval_date runs
\* _check_effective_date; the assignment of effective_date that follows is a
\* second write, which runs it again
ActionApprove(u) ==
    IF ~HasGroupManager(u)
    THEN Raise("action_approve", u, "UserError")
    ELSE IF ~CheckEffectiveDate(effective_date, today)
    THEN RaiseTracked("action_approve", u, "ValidationError", "approved")
    ELSE /\ state' = "approved"
         /\ approved_by' = u
         /\ approval_date' = today
         /\ IF effective_date = 0 /\ CheckEffectiveDate(today, today)
            THEN effective_date' = today
            ELSE effective_date' = effective_date
         /\ last' = Tracked(Call("action_approve", u,
                                 IF effective_date = 0 /\ ~CheckEffectiveDate(today, today)
                                 THEN "ValidationError" ELSE "none"),
                            state, "approved")
         /\ UNCHANGED <<change_type, change_line_ids, rejection_reason,
                        implementation_notes, bom_line_ids, wizard, today, plan_vars, bom_vars>>

\* EngineeringChange.action_reject: checks the group and returns the window
\* action that opens the wizard; it writes nothing
ActionReject(u) ==
    IF ~HasGroupManager(u)
    THEN Raise("action_reject", u, "UserError")
    ELSE Raise("action_reject", u, "none")

\* creation of an ECORejectionWizard record: eco_id and rejection_reason are
\* required fields
WizardCreate(u, reason) ==
    IF reason = ""
    THEN Raise("wizard_create", u, "ValidationError")
    ELSE /\ wizard' = [eco_id |-> "eco", rejection_reason |-> reason]
         /\ last' = Call("wizard_create", u, "none")
         /\ UNCHANGED <<eco_fields, bom_line_ids, today, plan_vars, bom_vars>>

\* ECORejectionWizard.action_reject
WizardActionReject(u) ==
    /\ wizard # NoWizard
    /\ state' = "rejected"
    /\ rejection_reason' = wizard.rejection_reason
    /\ last' = Tracked(Call("wizard_action_reject", u, "none"), state, "rejected")
    /\ UNCHANGED <<change_type, change_line_ids, approved_by, approval_date,
                   effective_date, implementation_notes, bom_line_ids, wizard, today, plan_vars, bom_vars>>

\* action_implement without the check of the state
M_ActionImplement_NoStateCheck ==
    LET r == ApplyChangesToBom(bom_line_ids, change_line_ids) IN
    /\ bom_line_ids' = r.bom
    /\ IF r.ok
       THEN /\ state' = "implemented"
            /\ implementation_notes' = today
            /\ last' = Tracked(Call("action_implement", "none", "none"),
                               state, "implemented")
       ELSE /\ UNCHANGED <<state, implementation_notes>>
            /\ last' = Call("action_implement", "none", "UserError")
    /\ UNCHANGED <<change_type, change_line_ids, approved_by, approval_date,
                   effective_date, rejection_reason, wizard, today, plan_vars, bom_vars>>

\* action_implement
ActionImplement ==
    IF state # "approved"
    THEN Raise("action_implement", "none", "UserError")
    ELSE LET r == ApplyChangesToBom(bom_line_ids, change_line_ids) IN
         /\ bom_line_ids' = r.bom
         /\ IF r.ok
            THEN /\ state' = "implemented"
                 /\ implementation_notes' = today
                 /\ last' = Tracked(Call("action_implement", "none", "none"),
                                    state, "implemented")
            ELSE /\ UNCHANGED <<state, implementation_notes>>
                 /\ last' = Call("action_implement", "none", "UserError")
         /\ UNCHANGED <<change_type, change_line_ids, approved_by, approval_date,
                        effective_date, rejection_reason, wizard, today, plan_vars, bom_vars>>

\* action_cancel without the check of the state
M_ActionCancel_NoStateCheck ==
    /\ state' = "cancelled"
    /\ last' = Tracked(Call("action_cancel", "none", "none"), state, "cancelled")
    /\ UNCHANGED <<change_type, change_line_ids, approved_by, approval_date,
                   effective_date, rejection_reason, implementation_notes,
                   bom_line_ids, wizard, today, plan_vars, bom_vars>>

\* action_cancel
ActionCancel ==
    IF state = "implemented"
    THEN Raise("action_cancel", "none", "UserError")
    ELSE /\ state' = "cancelled"
         /\ last' = Tracked(Call("action_cancel", "none", "none"), state, "cancelled")
         /\ UNCHANGED <<change_type, change_line_ids, approved_by, approval_date,
                        effective_date, rejection_reason, implementation_notes,
                        bom_line_ids, wizard, today, plan_vars, bom_vars>>

\* action_reset_to_draft writing state=draft without clearing approved_by,
\* approval_date and rejection_reason
M_ActionResetToDraft_KeepsApproval ==
    IF state = "implemented"
    THEN Raise("action_reset_to_draft", "none", "UserError")
    ELSE /\ state' = "draft"
         /\ last' = Tracked(Call("action_reset_to_draft", "none", "none"),
                            state, "draft")
         /\ UNCHANGED <<change_type, change_line_ids, approved_by, approval_date,
                        effective_date, rejection_reason, implementation_notes,
                        bom_line_ids, wizard, today, plan_vars, bom_vars>>

\* action_reset_to_draft: the write clears approval_date, so it runs
\* _check_effective_date on the cleared value
ActionResetToDraft ==
    IF state = "implemented"
    THEN Raise("action_reset_to_draft", "none", "UserError")
    ELSE IF ~CheckEffectiveDate(effective_date, 0)
    THEN RaiseTracked("action_reset_to_draft", "none", "ValidationError", "draft")
    ELSE /\ state' = "draft"
         /\ approved_by' = "none"
         /\ approval_date' = 0
         /\ rejection_reason' = ""
         /\ last' = Tracked(Call("action_reset_to_draft", "none", "none"),
                            state, "draft")
         /\ UNCHANGED <<change_type, change_line_ids, effective_date,
                        implementation_notes, bom_line_ids, wizard, today, plan_vars, bom_vars>>

\* write({'effective_date': d}) on the ECO
WriteEffectiveDate(d) ==
    IF ~CheckEffectiveDate(d, approval_date)
    THEN Raise("write_effective_date", "none", "ValidationError")
    ELSE /\ effective_date' = d
         /\ last' = Call("write_effective_date", "none", "none")
         /\ UNCHANGED <<state, change_type, change_line_ids, approved_by,
                        approval_date, rejection_reason, implementation_notes,
                        bom_line_ids, wizard, today, plan_vars, bom_vars>>

\* write({'change_line_ids': [(0, 0, line)]}) on the ECO: creates the line
\* (_check_quantities) and runs _check_change_lines
WriteAddLine(line) ==
    IF ~CheckQuantities(line) \/ ~CheckChangeLines(state, Append(change_line_ids, line))
    THEN Raise("write_add_line", "none", "ValidationError")
    ELSE /\ Len(change_line_ids) < MaxLines
         /\ change_line_ids' = Append(change_line_ids, line)
         /\ last' = Call("write_add_line", "none", "none")
         /\ UNCHANGED <<state, change_type, approved_by, approval_date,
                        effective_date, rejection_reason, implementation_notes,
                        bom_line_ids, wizard, today, plan_vars, bom_vars>>

\* write({'change_line_ids': [(2, id)]}) on the ECO: deletes the line at
\* position i and runs _check_change_lines
WriteRemoveLine(i) ==
    /\ i \in 1..Len(change_line_ids)
    /\ IF ~CheckChangeLines(state, RemoveAt(change_line_ids, i))
       THEN Raise("write_remove_line", "none", "ValidationError")
       ELSE /\ change_line_ids' = RemoveAt(change_line_ids, i)
            /\ last' = Call("write_remove_line", "none", "none")
            /\ UNCHANGED <<state, change_type, approved_by, approval_date,
                           effective_date, rejection_reason, implementation_notes,
                           bom_line_ids, wizard, today, plan_vars, bom_vars>>

\* the calendar day advances
Tick ==
    /\ today < MaxDay
    /\ today' = today + 1
    /\ last' = Call("tick", "none", "none")
    /\ UNCHANGED <<eco_fields, bom_line_ids, wizard, plan_vars, bom_vars>>

----------------------------------------------------------------------------
(* Production plans *)

PlanStates == {"draft", "confirmed", "scheduled", "in_progress", "done", "cancelled"}
Priorities == {"0", "1", "2", "3"}
SchedulingMethods == {"fcfs", "sjf", "priority", "critical_path", "genetic"}

\* the selection keys of priority, as the ORDER BY compares them
PriorityRank(k) == CASE k = "0" -> 0 [] k = "1" -> 1 [] k = "2" -> 2 [] k = "3" -> 3

\* bom_id.operation_ids: the operations of a BOM, their times in minutes
\* (whole hours, so that the division by 60.0 is exact)
OperationIds(bom) ==
    IF bom = "bom1"
    THEN <<[time_mode_batch |-> 60, time_cycle |-> 60]>>
    ELSE <<>>

RECURSIVE TotalTime(_, _, _)
TotalTime(ops, qty, k) ==
    IF k > Len(ops)
    THEN 0
    ELSE ops[k].time_mode_batch + ops[k].time_cycle * qty + TotalTime(ops, qty, k + 1)

\* _compute_estimated_duration, in hours
ComputeEstimatedDuration(bom, qty) ==
    IF bom # "none"
    THEN TotalTime(OperationIds(bom), qty, 1) \div 60
    ELSE 0

\* a ProductionPlan record as create() leaves it: state draft, no start or
\* end date, progress 0
NewPlan(p, prio, planned, bom, method) ==
    [name |-> p,
     state |-> "draft",
     priority |-> prio,
     date_planned |-> planned,
     estimated_duration |-> ComputeEstimatedDuration(bom, IF p = 1 THEN 2 ELSE 1),
     scheduling_method |-> method,
     date_start |-> 0,
     date_end |-> 0,
     progress_percentage |-> 0,
     product_id |-> IF p = 1 THEN "p1" ELSE "p2",
     product_qty |-> IF p = 1 THEN 2 ELSE 1,
     bom_id |-> bom]

\* a call of a plan method: the plan it is called on, the error it raises,
\* and for action_schedule the plans in the order the policy processed them
PlanCall(op, p, err) == [op |-> op, plan |-> p, err |-> err, order |-> <<>>]

\* search([('state', '=', 'confirmed')]): the ids found
ConfirmedIds(ps) == {q \in PlanIds : ps[q].state = "confirmed"}

\* the orders in which a search may return the ids: every arrangement of
\* them that agrees with before, the pairs <<a, b>> that the ORDER BY puts
\* a ahead of b; rows it leaves equal come in any order
SearchOrders(ids, before) ==
    {o \in [1..Cardinality(ids) -> ids] :
        /\ \A i, j \in 1..Cardinality(ids) : i # j => o[i] # o[j]
        /\ \A i, j \in 1..Cardinality(ids) : i < j => <<o[j], o[i]>> \notin before}

\* order='priority desc, date_planned asc'
PriorityOrders(ps) ==
    SearchOrders(ConfirmedIds(ps),
        {ab \in PlanIds \X PlanIds :
            \/ PriorityRank(ps[ab[1]].priority) > PriorityRank(ps[ab[2]].priority)
            \/ /\ ps[ab[1]].priority = ps[ab[2]].priority
               /\ ps[ab[1]].date_planned < ps[ab[2]].date_planned})

\* order='estimated_duration asc'
ShortestJobOrders(ps) ==
    SearchOrders(ConfirmedIds(ps),
        {ab \in PlanIds \X PlanIds :
            ps[ab[1]].estimated_duration < ps[ab[2]].estimated_duration})

\* order='date_planned asc'
FirstComeOrders(ps) ==
    SearchOrders(ConfirmedIds(ps),
        {ab \in PlanIds \X PlanIds :
            ps[ab[1]].date_planned < ps[ab[2]].date_planned})

\* _find_available_time_slot forgetting the duration
M_FindAvailableTimeSlot_NoDuration(plan) ==
    [start |-> plan.date_planned, end |-> plan.date_planned]

\* _find_available_time_slot
FindAvailableTimeSlot(plan) ==
    [start |-> plan.date_planned,
     end |-> plan.date_planned + plan.estimated_duration]

\* the loop of _priority_based_scheduling, _shortest_job_first and
\* _first_come_first_serve over the plans found, from position k on
RECURSIVE WriteSlots(_, _, _)
WriteSlots(ps, order, k) ==
    IF k > Len(order)
    THEN ps
    ELSE LET q == order[k]
             slot == FindAvailableTimeSlot(ps[q])
         IN WriteSlots([ps EXCEPT ![q].date_start = slot.start,
                                  ![q].date_end = slot.end],
                       order, k + 1)

\* a pass over the plans found in the order o, and the plans it leaves
Pass(ps, o) == [order |-> o, plans |-> WriteSlots(ps, o, 1)]

\* _priority_based_scheduling stopping after the first plan found
M_PriorityBasedScheduling_FirstOnly(ps) ==
    {Pass(ps, IF o = <<>> THEN o ELSE <<o[1]>>) : o \in PriorityOrders(ps)}

\* _priority_based_scheduling: the passes it may make
PriorityBasedScheduling(ps) == {Pass(ps, o) : o \in PriorityOrders(ps)}

\* _shortest_job_first stopping after the shortest plan
M_ShortestJobFirst_FirstOnly(ps) ==
    {Pass(ps, IF o = <<>> THEN o ELSE <<o[1]>>) : o \in ShortestJobOrders(ps)}

\* _shortest_job_first
ShortestJobFirst(ps) == {Pass(ps, o) : o \in ShortestJobOrders(ps)}

\* _first_come_first_serve
FirstComeFirstServe(ps) == {Pass(ps, o) : o \in FirstComeOrders(ps)}

\* _critical_path_method calling _priority_based_scheduling
M_CriticalPathMethod_PriorityBased(ps) == PriorityBasedScheduling(ps)

\* _critical_path_method
CriticalPathMethod(ps) == FirstComeFirstServe(ps)

\* _apply_scheduling_algorithm
ApplySchedulingAlgorithm(ps, method) ==
    CASE method = "priority" -> PriorityBasedScheduling(ps)
      [] method = "sjf" -> ShortestJobFirst(ps)
      [] method = "critical_path" -> CriticalPathMethod(ps)
      [] OTHER -> FirstComeFirstServe(ps)

\* _create_manufacturing_order: the values passed to mrp.production.create
ManufacturingOrder(plan) ==
    [product_id |-> plan.product_id,
     product_qty |-> plan.product_qty,
     bom_id |-> plan.bom_id,
     date_planned_start |-> plan.date_planned,
     origin |-> plan.name]

\* action_confirm logging the failed creation without raising
M_PlanActionConfirm_Swallow(p, created) ==
    /\ Len(productions) < MaxProductions
    /\ plans' = [plans EXCEPT ![p].state = "confirmed"]
    /\ productions' = IF created
                      THEN Append(productions, ManufacturingOrder(plans'[p]))
                      ELSE productions
    /\ plan_call' = PlanCall("action_confirm", p, "none")
    /\ UNCHANGED <<eco_vars, bom_vars, now>>

\* action_confirm: writes the state, then creates the manufacturing order;
\* created tells whether mrp.production.create returns or raises, and a
\* raise is logged and raised again as UserError
PlanActionConfirm(p, created) ==
    /\ Len(productions) < MaxProductions
    /\ plans' = [plans EXCEPT ![p].state = "confirmed"]
    /\ IF created
       THEN /\ productions' = Append(productions, ManufacturingOrder(plans'[p]))
            /\ plan_call' = PlanCall("action_confirm", p, "none")
       ELSE /\ productions' = productions
            /\ plan_call' = PlanCall("action_confirm", p, "UserError")
    /\ UNCHANGED <<eco_vars, bom_vars, now>>

\* action_schedule: writes the state, then runs the plan's policy over the
\* plans that are confirmed at that point
PlanActionSchedule(p) ==
    /\ \E pass \in ApplySchedulingAlgorithm([plans EXCEPT ![p].state = "scheduled"],
                                             plans[p].scheduling_method) :
          /\ plans' = pass.plans
          /\ plan_call' = [PlanCall("action_schedule", p, "none")
                              EXCEPT !.order = pass.order]
    /\ UNCHANGED <<eco_vars, bom_vars, productions, now>>

\* action_start_production
PlanActionStartProduction(p) ==
    /\ plans' = [plans EXCEPT ![p].state = "in_progress", ![p].date_start = now]
    /\ plan_call' = PlanCall("action_start_production", p, "none")
    /\ UNCHANGED <<eco_vars, bom_vars, productions, now>>

\* action_complete
PlanActionComplete(p) ==
    /\ plans' = [plans EXCEPT ![p].state = "done", ![p].date_end = now,
                              ![p].progress_percentage = 100]
    /\ plan_call' = PlanCall("action_complete", p, "none")
    /\ UNCHANGED <<eco_vars, bom_vars, productions, now>>

\* an hour passes
PlanTick ==
    /\ now < MaxHour
    /\ now' = now + 1
    /\ plan_call' = PlanCall("tick", 0, "none")
    /\ UNCHANGED <<eco_vars, bom_vars, plans, productions>>

----------------------------------------------------------------------------
(* BOM costs and complexity *)
(* Costs are whole numbers: prices are multiples of 5 and hourly costs      *)
(* multiples of 60, so that the division by 60 and the 20% share are exact. *)
(* complexity_score is kept in halves, so that 1.5 per operation is 3.      *)

\* line.product_id.bom_ids[0]: the first BOM that makes the product, 0 when
\* the product has none
FirstBom(p) ==
    CASE p = "p1" -> 1 [] p = "p2" -> 2 [] p = "p3" -> 3 [] p = "p4" -> 4
      [] OTHER -> 0

\* an mrp.bom record without lines or operations
EmptyBom ==
    [bom_line_ids |-> <<>>, operation_ids |-> <<>>,
     material_cost |-> 0, labor_cost |-> 0, overhead_cost |-> 0, total_cost |-> 0,
     complexity_score |-> 0]

BomLineInputs == [product_id : AllProducts, product_qty : BomQtys]
OperationInputs == [time_cycle : TimeCycles, workcenter_id : WorkCenters \cup {"none"}]

\* the loop over bom.bom_line_ids of _compute_costs, from line k on, ignoring
\* the quantities
RECURSIVE M_MaterialCost_IgnoresQty(_, _, _)
M_MaterialCost_IgnoresQty(lines, price, k) ==
    IF k > Len(lines)
    THEN 0
    ELSE price[lines[k].product_id] + M_MaterialCost_IgnoresQty(lines, price, k + 1)

\* the loop over bom.bom_line_ids of _compute_costs, from line k on
RECURSIVE MaterialCost(_, _, _)
MaterialCost(lines, price, k) ==
    IF k > Len(lines)
    THEN 0
    ELSE (IF lines[k].product_id # "none" /\ lines[k].product_qty # 0
          THEN lines[k].product_qty * price[lines[k].product_id]
          ELSE 0)
         + MaterialCost(lines, price, k + 1)

\* the loop over bom.operation_ids of _compute_costs, from operation k on
RECURSIVE LaborCost(_, _, _)
LaborCost(ops, hour, k) ==
    IF k > Len(ops)
    THEN 0
    ELSE (IF ops[k].time_cycle # 0 /\ ops[k].workcenter_id # "none"
          THEN (ops[k].time_cycle * hour[ops[k].workcenter_id]) \div 60
          ELSE 0)
         + LaborCost(ops, hour, k + 1)

\* _compute_costs taking the overhead on the material cost only
M_ComputeCosts_OverheadOnMaterial(bom, price, hour) ==
    LET material == MaterialCost(bom.bom_line_ids, price, 1)
        labor == LaborCost(bom.operation_ids, hour, 1)
        overhead == material \div 5
    IN [bom EXCEPT !.material_cost = material,
                   !.labor_cost = labor,
                   !.overhead_cost = overhead,
                   !.total_cost = material + labor + overhead]

\* _compute_costs on one BOM
ComputeCosts(bom, price, hour) ==
    LET material == MaterialCost(bom.bom_line_ids, price, 1)
        labor == LaborCost(bom.operation_ids, hour, 1)
        overhead == (material + labor) \div 5
    IN [bom EXCEPT !.material_cost = material,
                   !.labor_cost = labor,
                   !.overhead_cost = overhead,
                   !.total_cost = material + labor + overhead]

Max(a, b) == IF a >= b THEN a ELSE b

RECURSIVE GetLevelRecursive(_, _, _, _)
RECURSIVE LevelLoop(_, _, _, _, _, _)

\* get_level_recursive stopping at a nesting limit instead of at a BOM it
\* has processed
M_GetLevelRecursive_NestingLimit(bs, b, current_level, st) ==
    IF current_level >= Cardinality(BomIds)
    THEN [level |-> current_level, st |-> st]
    ELSE LevelLoop(bs, b, 1, current_level, current_level,
                   [processed |-> st.processed \cup {b},
                    visits |-> Append(st.visits, b)])

\* get_level_recursive of _get_bom_levels: [level, st], st being
\* processed_boms and the BOMs expanded so far, in order
GetLevelRecursive(bs, b, current_level, st) ==
    IF b \in st.processed
    THEN [level |-> current_level, st |-> st]
    ELSE LevelLoop(bs, b, 1, current_level, current_level,
                   [processed |-> st.processed \cup {b},
                    visits |-> Append(st.visits, b)])

\* the loop over bom.bom_line_ids of get_level_recursive, from line k on
LevelLoop(bs, b, k, current_level, level, st) ==
    IF k > Len(bs[b].bom_line_ids)
    THEN [level |-> level, st |-> st]
    ELSE LET child_bom == FirstBom(bs[b].bom_line_ids[k].product_id) IN
         IF child_bom # 0
         THEN LET child == GetLevelRecursive(bs, child_bom, current_level + 1, st)
              IN LevelLoop(bs, b, k + 1, current_level,
                           Max(level, child.level), child.st)
         ELSE LevelLoop(bs, b, k + 1, current_level, level, st)

\* _get_bom_levels
GetBomLevels(bs, b) ==
    GetLevelRecursive(bs, b, 0, [processed |-> {}, visits |-> <<>>])

\* the score of _compute_complexity, in halves
ComplexityScore(bs, b) ==
    2 * Len(bs[b].bom_line_ids) + 3 * Len(bs[b].operation_ids)
        + 4 * GetBomLevels(bs, b).level

\* the field paths of @api.depends on _compute_costs and _compute_complexity
CostDepends ==
    {"bom_line_ids", "bom_line_ids.product_qty",
     "bom_line_ids.product_id.standard_price", "operation_ids"}

ComplexityDepends == {"bom_line_ids", "operation_ids"}

\* the stored computed fields recomputed after a write of the field path
\* on the BOMs ids
Recomputed(field) ==
    (IF field \in CostDepends THEN {"costs"} ELSE {})
        \cup (IF field \in ComplexityDepends THEN {"complexity"} ELSE {})

Recompute(bs, ids, field, price, hour) ==
    [b \in DOMAIN bs |->
        IF b \notin ids
        THEN bs[b]
        ELSE LET costed == IF field \in CostDepends
                           THEN ComputeCosts(bs[b], price, hour)
                           ELSE bs[b]
             IN IF field \in ComplexityDepends
                THEN [costed EXCEPT !.complexity_score = ComplexityScore(bs, b)]
                ELSE costed]

\* a change to the BOM store: the operation, the BOMs whose record the
\* written field path belongs to, the computed fields the record store
\* recomputed on them, and the BOMs each _get_bom_levels expanded, in order
BomCall(op, ids, field, bs) ==
    [op |-> op, boms |-> ids, recomputed |-> Recomputed(field),
     visits |-> [b \in ids |-> IF field \in ComplexityDepends
                               THEN GetBomLevels(bs, b).st.visits
                               ELSE <<>>]]

InsertAt(s, i, e) ==
    [j \in 1..(Len(s) + 1) |-> IF j < i THEN s[j] ELSE IF j = i THEN e ELSE s[j - 1]]

\* creation of an mrp.bom.line on BOM b, at position pos of its lines
BomAddLine(b, pos, line) ==
    /\ Len(boms[b].bom_line_ids) < MaxBomLines
    /\ pos \in 1..(Len(boms[b].bom_line_ids) + 1)
    /\ LET bs == [boms EXCEPT ![b].bom_line_ids = InsertAt(@, pos, line)]
       IN /\ boms' = Recompute(bs, {b}, "bom_line_ids", standard_price, costs_hour)
          /\ bom_call' = BomCall("add_line", {b}, "bom_line_ids", bs)
    /\ UNCHANGED <<eco_vars, plan_vars, standard_price, costs_hour>>

\* unlink of the line at position i of BOM b
BomRemoveLine(b, i) ==
    /\ i \in 1..Len(boms[b].bom_line_ids)
    /\ LET bs == [boms EXCEPT ![b].bom_line_ids = RemoveAt(@, i)]
       IN /\ boms' = Recompute(bs, {b}, "bom_line_ids", standard_price, costs_hour)
          /\ bom_call' = BomCall("remove_line", {b}, "bom_line_ids", bs)
    /\ UNCHANGED <<eco_vars, plan_vars, standard_price, costs_hour>>

\* write of product_qty on the line at position i of BOM b
BomWriteLineQty(b, i, qty) ==
    /\ i \in 1..Len(boms[b].bom_line_ids)
    /\ LET bs == [boms EXCEPT ![b].bom_line_ids[i].product_qty = qty]
       IN /\ boms' = Recompute(bs, {b}, "bom_line_ids.product_qty",
                               standard_price, costs_hour)
          /\ bom_call' = BomCall("write_product_qty", {b}, "bom_line_ids.product_qty", bs)
    /\ UNCHANGED <<eco_vars, plan_vars, standard_price, costs_hour>>

\* the BOMs that hold a line of product p
BomsOfProduct(bs, p) ==
    {b \in DOMAIN bs :
        \E i \in 1..Len(bs[b].bom_line_ids) : bs[b].bom_line_ids[i].product_id = p}

\* write of standard_price on product p
WriteStandardPrice(p, price) ==
    /\ standard_price' = [standard_price EXCEPT ![p] = price]
    /\ boms' = Recompute(boms, BomsOfProduct(boms, p),
                         "bom_line_ids.product_id.standard_price",
                         standard_price', costs_hour)
    /\ bom_call' = BomCall("write_standard_price", BomsOfProduct(boms, p),
                           "bom_line_ids.product_id.standard_price", boms)
    /\ UNCHANGED <<eco_vars, plan_vars, costs_hour>>

\* creation of an operation on BOM b
BomAddOperation(b, operation) ==
    /\ Len(boms[b].operation_ids) < MaxOps
    /\ LET bs == [boms EXCEPT ![b].operation_ids = Append(@, operation)]
       IN /\ boms' = Recompute(bs, {b}, "operation_ids", standard_price, costs_hour)
          /\ bom_call' = BomCall("add_operation", {b}, "operation_ids", bs)
    /\ UNCHANGED <<eco_vars, plan_vars, standard_price, costs_hour>>

\* unlink of the operation at position i of BOM b
BomRemoveOperation(b, i) ==
    /\ i \in 1..Len(boms[b].operation_ids)
    /\ LET bs == [boms EXCEPT ![b].operation_ids = RemoveAt(@, i)]
       IN /\ boms' = Recompute(bs, {b}, "operation_ids", standard_price, costs_hour)
          /\ bom_call' = BomCall("remove_operation", {b}, "operation_ids", bs)
    /\ UNCHANGED <<eco_vars, plan_vars, standard_price, costs_hour>>

\* write of time_cycle on the operation at position i of BOM b
WriteTimeCycle(b, i, time_cycle) ==
    /\ i \in 1..Len(boms[b].operation_ids)
    /\ LET bs == [boms EXCEPT ![b].operation_ids[i].time_cycle = time_cycle]
       IN /\ boms' = Recompute(bs, {b}, "operation_ids.time_cycle",
                               standard_price, costs_hour)
          /\ bom_call' = BomCall("write_time_cycle", {b}, "operation_ids.time_cycle", bs)
    /\ UNCHANGED <<eco_vars, plan_vars, standard_price, costs_hour>>

\* the BOMs that hold an operation of work center w
BomsOfWorkCenter(bs, w) ==
    {b \in DOMAIN bs :
        \E i \in 1..Len(bs[b].operation_ids) : bs[b].operation_ids[i].workcenter_id = w}

\* write of costs_hour on work center w
WriteCostsHour(w, cost) ==
    /\ costs_hour' = [costs_hour EXCEPT ![w] = cost]
    /\ boms' = Recompute(boms, BomsOfWorkCenter(boms, w),
                         "operation_ids.workcenter_id.costs_hour",
                         standard_price, costs_hour')
    /\ bom_call' = BomCall("write_costs_hour", BomsOfWorkCenter(boms, w),
                           "operation_ids.workcenter_id.costs_hour", boms)
    /\ UNCHANGED <<eco_vars, plan_vars, standard_price>>

\* _apply_changes_to_bom of an ECO with the change lines on BOM b: the
\* mrp.bom.line records it creates, unlinks and writes
BomApplyChanges(b, lines) ==
    /\ LET r == ApplyChangesToBom(boms[b].bom_line_ids, lines)
           bs == [boms EXCEPT ![b].bom_line_ids = r.bom]
           field == IF Len(r.bom) # Len(boms[b].bom_line_ids)
                    THEN "bom_line_ids"
                    ELSE "bom_line_ids.product_qty"
       IN /\ Len(r.bom) <= MaxBomLines
          /\ boms' = Recompute(bs, {b}, field, standard_price, costs_hour)
          /\ bom_call' = BomCall("apply_changes", {b}, field, bs)
    /\ UNCHANGED <<eco_vars, plan_vars, standard_price, costs_hour>>

----------------------------------------------------------------------------
(* Specifications *)

InitBoms == {<<>>} \cup {<<[product_id |-> p, product_qty |-> 1]>> : p \in Products}

\* create() of three production plans with the field defaults, planned for
\* the first hour, the first of them with a BOM
InitPlans ==
    /\ plans = [p \in PlanIds |->
                   NewPlan(p, "1", 1, IF p = 1 THEN "bom1" ELSE "none", "priority")]
    /\ productions = <<>>
    /\ now = 1
    /\ plan_call = PlanCall("create", 0, "none")

\* no BOM, product or work center is in the store
InitNoBoms ==
    /\ boms = <<>>
    /\ standard_price = <<>>
    /\ costs_hour = <<>>
    /\ bom_call = BomCall("create", {}, "none", <<>>)

\* no production plan has been created
InitNoPlans ==
    /\ plans = <<>>
    /\ productions = <<>>
    /\ now = 1
    /\ plan_call = PlanCall("create", 0, "none")

\* create(): the field defaults of EngineeringChange
InitEco ==
    /\ state = "draft"
    /\ change_line_ids = <<>>
    /\ approved_by = "none"
    /\ approval_date = 0
    /\ effective_date = 0
    /\ rejection_reason = ""
    /\ implementation_notes = 0
    /\ wizard = NoWizard
    /\ today = 1
    /\ last = Call("create", "none", "none")

\* The ECO life cycle: every method, the clock, writes of effective_date and
\* of change_line_ids, for an ECO of any change_type on an empty BOM.  The
\* lines written are "add p1" lines.
Init ==
    /\ InitEco
    /\ change_type \in ChangeTypes
    /\ bom_line_ids = <<>>
    /\ InitNoPlans
    /\ InitNoBoms

LifeLineInputs ==
    {l \in LineInputs : l.product_id = "p1" /\ l.action = "add" /\ l.new_qty = 1}

Next ==
    \/ ActionSubmitForReview
    \/ \E u \in Users : ActionApprove(u)
    \/ \E u \in Users : ActionReject(u)
    \/ \E u \in Users, reason \in Reasons : WizardCreate(u, reason)
    \/ \E u \in Users : WizardActionReject(u)
    \/ ActionImplement
    \/ ActionCancel
    \/ ActionResetToDraft
    \/ \E d \in 0..MaxDay : WriteEffectiveDate(d)
    \/ \E line \in LifeLineInputs : WriteAddLine(line)
    \/ \E i \in 1..MaxLines : WriteRemoveLine(i)
    \/ Tick

Spec == Init /\ [][Next]_vars

\* Implementation of change lines: a modification ECO on a BOM of at most
\* one line, its change lines written from a wider set, then approved,
\* implemented and reset on one day.
InitImpl ==
    /\ InitEco
    /\ change_type = "modification"
    /\ bom_line_ids \in InitBoms
    /\ InitNoPlans
    /\ InitNoBoms

ImplLineInputs ==
    {l \in LineInputs : l.product_id = "p1" \/ l.new_qty = 1}

NextImpl ==
    \/ ActionSubmitForReview
    \/ \E u \in Users : ActionApprove(u)
    \/ ActionImplement
    \/ ActionResetToDraft
    \/ \E line \in ImplLineInputs : WriteAddLine(line)
    \/ \E i \in 1..MaxLines : WriteRemoveLine(i)

SpecImpl == InitImpl /\ [][NextImpl]_vars

\* Validation of change lines: lines of one product with quantities from a
\* range around zero are written to and deleted from a draft ECO.
InitLine ==
    /\ InitEco
    /\ change_type \in ChangeTypes
    /\ bom_line_ids = <<>>
    /\ InitNoPlans
    /\ InitNoBoms

WideLineInputs ==
    [product_id : {"p1"}, action : LineActions,
     current_qty : WideQtys, new_qty : WideQtys]

NextLine ==
    \/ \E line \in WideLineInputs : WriteAddLine(line)
    \/ \E i \in 1..MaxLines : WriteRemoveLine(i)

SpecLine == InitLine /\ [][NextLine]_vars

\* The plan life cycle: the four methods called in any order on two of the
\* plans, the creation of the manufacturing order succeeding or failing,
\* and the clock.
InitPlan ==
    /\ InitEco
    /\ change_type = "modification"
    /\ bom_line_ids = <<>>
    /\ InitPlans
    /\ InitNoBoms

LifePlanIds == {1, 2}

NextPlan ==
    \/ \E p \in LifePlanIds, created \in BOOLEAN : PlanActionConfirm(p, created)
    \/ \E p \in LifePlanIds : PlanActionSchedule(p)
    \/ \E p \in LifePlanIds : PlanActionStartProduction(p)
    \/ \E p \in LifePlanIds : PlanActionComplete(p)
    \/ PlanTick

SpecPlan == InitPlan /\ [][NextPlan]_vars

\* The scheduler: three plans of any priority, planned hour and BOM, each
\* draft or confirmed, all of one scheduling method; the manufacturing
\* orders are those of the confirmed plans.  Any plan is scheduled, any
\* number of times.
SchedPriorities == {"1", "2"}

SchedInputs ==
    [state : {"draft", "confirmed"}, priority : SchedPriorities,
     date_planned : PlannedHours, bom_id : Boms]

SchedPlans(in, method) ==
    [p \in PlanIds |->
        [NewPlan(p, in[p].priority, in[p].date_planned, in[p].bom_id, method)
            EXCEPT !.state = in[p].state]]

RECURSIVE ConfirmedOrders(_, _)
ConfirmedOrders(ps, p) ==
    IF p \notin PlanIds
    THEN <<>>
    ELSE IF ps[p].state = "confirmed"
         THEN <<ManufacturingOrder(ps[p])>> \o ConfirmedOrders(ps, p + 1)
         ELSE ConfirmedOrders(ps, p + 1)

InitSched ==
    /\ InitEco
    /\ change_type = "modification"
    /\ bom_line_ids = <<>>
    /\ \E in \in [PlanIds -> SchedInputs], method \in SchedulingMethods :
          plans = SchedPlans(in, method)
    /\ productions = ConfirmedOrders(plans, 1)
    /\ now = 1
    /\ plan_call = PlanCall("create", 0, "none")
    /\ InitNoBoms

NextSched == \E p \in PlanIds : PlanActionSchedule(p)

SpecSched == InitSched /\ [][NextSched]_vars

\* The policies side by side: plan 1 is scheduled, any number of times,
\* while plans 2 and 3 are confirmed, each of any priority, planned hour
\* and BOM.
PolicyInputs ==
    {in \in [PlanIds -> SchedInputs] :
        /\ in[1] = [state |-> "confirmed", priority |-> "1",
                    date_planned |-> 1, bom_id |-> "none"]
        /\ in[2].state = "confirmed"
        /\ in[3].state = "confirmed"}

InitPolicy ==
    /\ InitEco
    /\ change_type = "modification"
    /\ bom_line_ids = <<>>
    /\ \E in \in PolicyInputs, method \in SchedulingMethods :
          plans = SchedPlans(in, method)
    /\ productions = ConfirmedOrders(plans, 1)
    /\ now = 1
    /\ plan_call = PlanCall("create", 0, "none")
    /\ InitNoBoms

NextPolicy == PlanActionSchedule(1)

SpecPolicy == InitPolicy /\ [][NextPolicy]_vars

\* the stored computed fields of every BOM as a recomputation leaves them
FreshBoms(bs, price, hour) ==
    [b \in DOMAIN bs |->
        [ComputeCosts(bs[b], price, hour)
            EXCEPT !.complexity_score = ComplexityScore(bs, b)]]

InitEcoIdle ==
    /\ InitEco
    /\ change_type = "modification"
    /\ bom_line_ids = <<>>
    /\ InitNoPlans

\* BOM costs: one BOM, empty at first, whose lines and operations are
\* created, written and unlinked, with the prices and hourly costs they
\* read, and the change lines of an ECO applied to it.
InitCost ==
    /\ InitEcoIdle
    /\ boms = [b \in BomIds |-> EmptyBom]
    /\ standard_price = [p \in AllProducts |-> 5]
    /\ costs_hour = [w \in WorkCenters |-> 0]
    /\ bom_call = BomCall("create", {}, "none", boms)

CostLineInputs == {l \in BomLineInputs : l.product_id \in {"p2", "raw"}}

CostChangeLines ==
    {l \in LineInputs : l.product_id = "p2" /\ l.current_qty = 1 /\ l.new_qty = 2}

NextCost ==
    \/ \E pos \in 1..MaxBomLines, line \in CostLineInputs : BomAddLine(1, pos, line)
    \/ \E i \in 1..MaxBomLines : BomRemoveLine(1, i)
    \/ \E i \in 1..MaxBomLines, qty \in BomQtys : BomWriteLineQty(1, i, qty)
    \/ \E price \in Prices : WriteStandardPrice("p2", price)
    \/ \E operation \in OperationInputs : BomAddOperation(1, operation)
    \/ \E i \in 1..MaxOps : BomRemoveOperation(1, i)
    \/ \E i \in 1..MaxOps, time_cycle \in TimeCycles : WriteTimeCycle(1, i, time_cycle)
    \/ \E w \in WorkCenters, cost \in HourCosts : WriteCostsHour(w, cost)
    \/ \E line \in CostChangeLines : BomApplyChanges(1, <<line>>)

SpecCost == InitCost /\ [][NextCost]_vars

\* BOM levels: the BOMs 1 to 3 start with at most one line each, of a
\* product that any of the four BOMs makes (so the graph may have cycles),
\* BOM 4 has no line; lines and operations are then added to BOM 1.
LevelLines == {<<>>} \cup {<<[product_id |-> p, product_qty |-> 1]>> : p \in BomProducts}

InitLevel ==
    /\ InitEcoIdle
    /\ standard_price = [p \in AllProducts |-> 5]
    /\ costs_hour = [w \in WorkCenters |-> 0]
    /\ \E lines \in [BomIds \ {4} -> LevelLines] :
          boms = FreshBoms([b \in BomIds |->
                               IF b = 4
                               THEN EmptyBom
                               ELSE [EmptyBom EXCEPT !.bom_line_ids = lines[b]]],
                           standard_price, costs_hour)
    /\ bom_call = BomCall("create", {}, "none", boms)

LevelLineInputs == {l \in BomLineInputs : l.product_id \in BomProducts /\ l.product_qty = 1}

LevelOperationInputs ==
    {o \in OperationInputs : o.time_cycle = 30 /\ o.workcenter_id = "wc"}

NextLevel ==
    \/ \E pos \in 1..MaxBomLines, line \in LevelLineInputs : BomAddLine(1, pos, line)
    \/ \E i \in 1..MaxBomLines : BomRemoveLine(1, i)
    \/ \E operation \in LevelOperationInputs : BomAddOperation(1, operation)

SpecLevel == InitLevel /\ [][NextLevel]_vars

----------------------------------------------------------------------------
(* Properties *)

\* C1: once the ECO is implemented its state never changes again, whatever
\* is called.  (As claimed; action_submit_for_review, action_approve and the
\* wizard's action_reject write the state without looking at it.)
C1_ImplementedIsTerminal ==
    [][state = "implemented" => state' = "implemented"]_vars

\* C2: action_implement called in a state other than approved raises
\* UserError and leaves the ECO state and the BOM lines as they were.
C2_ImplementOnlyFromApproved ==
    [][(last'.op = "action_implement" /\ state # "approved")
         => /\ last'.err = "UserError"
            /\ state' = state
            /\ bom_line_ids' = bom_line_ids]_vars

C2_Witness ==
    /\ last.op = "action_implement"
    /\ last.err = "UserError"
    /\ state = "rejected"

\* C3: an ECO that is approved or implemented has at least one change line.
\* (As claimed; _check_change_lines runs only when change_line_ids is
\* written, not when state is.)
C3_ApprovedHasChangeLines ==
    state \in {"approved", "implemented"} => change_line_ids # <<>>

\* C4: whenever effective_date and approval_date are both set,
\* effective_date >= approval_date.
C4_EffectiveNotBeforeApproval ==
    (effective_date # 0 /\ approval_date # 0) => effective_date >= approval_date

C4_Witness ==
    /\ last = Call("action_approve", "mgr", "ValidationError")
    /\ effective_date # 0
    /\ effective_date < today
    /\ approval_date # 0

\* C5: an action_implement that raises because a change line failed leaves
\* the BOM lines as they were and the ECO approved.  (As claimed; the lines
\* before the failing one stay applied.)
C5_ImplementNoPartialChange ==
    [][(state = "approved" /\ last'.op = "action_implement" /\ last'.err # "none")
         => /\ bom_line_ids' = bom_line_ids
            /\ state' = "approved"]_vars

\* the BOM after the first n lines were applied one after another
RECURSIVE C6_PrefixBom(_, _, _)
C6_PrefixBom(bom, lines, n) ==
    IF n = 0 THEN bom
    ELSE ApplyLine(C6_PrefixBom(bom, lines, n - 1), lines[n]).bom

\* each of the first n lines applied without raising
C6_PrefixOk(bom, lines, n) ==
    \A j \in 1..n : ApplyLine(C6_PrefixBom(bom, lines, j - 1), lines[j]).ok

\* C6: when action_implement raises at change line k, the BOM is left as
\* lines 1..k-1 made it, the lines after k are not applied, and the ECO
\* stays approved with its implementation notes unwritten.
C6_FailedImplementKeepsPrefix ==
    [][(state = "approved" /\ last'.op = "action_implement" /\ last'.err # "none")
         => \E k \in 1..Len(change_line_ids) :
               /\ C6_PrefixOk(bom_line_ids, change_line_ids, k - 1)
               /\ ~ApplyLine(C6_PrefixBom(bom_line_ids, change_line_ids, k - 1),
                             change_line_ids[k]).ok
               /\ bom_line_ids' = C6_PrefixBom(bom_line_ids, change_line_ids, k - 1)
               /\ last'.err = "UserError"
               /\ state' = "approved"
               /\ implementation_notes' = implementation_notes]_vars

\* the second of two "add p1" lines has failed, the first one's line is in the BOM
C6_Witness ==
    /\ last.op = "action_implement"
    /\ last.err = "UserError"
    /\ state = "approved"
    /\ Len(change_line_ids) = 2
    /\ \A i \in 1..2 : /\ change_line_ids[i].action = "add"
                       /\ change_line_ids[i].product_id = "p1"
                       /\ change_line_ids[i].new_qty = 2
    /\ bom_line_ids = <<[product_id |-> "p1", product_qty |-> 2]>>

\* C7: action_approve and EngineeringChange.action_reject called by a user
\* outside the manager group raise UserError and leave state, approved_by,
\* approval_date, effective_date and rejection_reason as they were.
C7_NonManagerChangesNothing ==
    [][(last'.op \in {"action_approve", "action_reject"} /\ last'.user \notin Managers)
         => /\ last'.err = "UserError"
            /\ UNCHANGED <<state, approved_by, approval_date, effective_date,
                           rejection_reason>>]_vars

C7_Witness ==
    /\ last.op = "action_approve"
    /\ last.user \notin Managers
    /\ last.err = "UserError"
    /\ state = "review"

\* C8: the state becomes rejected only by the reject of a manager that
\* supplies a reason, the wizard's confirmation step included.  (As claimed;
\* ECORejectionWizard.action_reject checks no group.)
C8_RejectedOnlyByManager ==
    [][(state' = "rejected" /\ state # "rejected")
         => /\ last'.op = "wizard_action_reject"
            /\ last'.user \in Managers
            /\ rejection_reason' # ""]_vars

\* C9 as claimed: action_approve called by a manager succeeds, whatever
\* effective_date holds.
C9_ManagerApproveAlwaysSucceeds ==
    [][(last'.op = "action_approve" /\ last'.user \in Managers)
         => /\ last'.err = "none"
            /\ state' = "approved"
            /\ approved_by' = last'.user
            /\ approval_date' = today
            /\ effective_date' = IF effective_date = 0 THEN today ELSE effective_date]_vars

\* C9, amended: action_approve called by a manager raises ValidationError
\* and changes none of state, approved_by, approval_date and effective_date
\* when effective_date is set to a day before today; otherwise it succeeds
\* and sets state=approved, approved_by=the caller, approval_date=today, and
\* effective_date=today if it was unset, leaving a set effective_date alone.
C9_ManagerApprove ==
    [][(last'.op = "action_approve" /\ last'.user \in Managers)
         => IF effective_date # 0 /\ effective_date < today
            THEN /\ last'.err = "ValidationError"
                 /\ UNCHANGED <<state, approved_by, approval_date, effective_date>>
            ELSE /\ last'.err = "none"
                 /\ state' = "approved"
                 /\ approved_by' = last'.user
                 /\ approval_date' = today
                 /\ effective_date' = IF effective_date = 0 THEN today
                                      ELSE effective_date]_vars

\* approved with an effective_date set beforehand to a later day
C9_Witness ==
    /\ last.op = "action_approve"
    /\ last.user \in Managers
    /\ last.err = "none"
    /\ state = "approved"
    /\ approved_by = last.user
    /\ effective_date > approval_date

\* C10: action_submit_for_review raises and leaves the state as it was when
\* change_type is addition, removal or modification and there is no change
\* line; otherwise it moves a draft ECO to review.
C10_SubmitForReview ==
    [][last'.op = "action_submit_for_review"
         => IF change_type \in {"addition", "removal", "modification"}
               /\ Len(change_line_ids) = 0
            THEN /\ last'.err = "UserError"
                 /\ state' = state
            ELSE state = "draft" => (last'.err = "none" /\ state' = "review")]_vars

C10_Witness ==
    /\ last.op = "action_submit_for_review"
    /\ last.err = "UserError"
    /\ change_type = "addition"
    /\ change_line_ids = <<>>
    /\ state = "draft"

\* C11: the ECO enters review only from draft, approved only from review,
\* rejected only from review and implemented only from approved.  (As
\* claimed; only action_implement looks at the state it leaves.)
C11_StatesEnteredAlongEdges ==
    [][/\ (state' = "review" /\ state # "review") => state = "draft"
       /\ (state' = "approved" /\ state # "approved") => state = "review"
       /\ (state' = "rejected" /\ state # "rejected") => state = "review"
       /\ (state' = "implemented" /\ state # "implemented") => state = "approved"]_vars

\* C12: action_cancel on an implemented ECO raises UserError and leaves it
\* implemented; on a draft, review or approved ECO it sets state=cancelled
\* and changes no other field of the ECO and no BOM line.
C12_Cancel ==
    [][last'.op = "action_cancel"
         => IF state = "implemented"
            THEN /\ last'.err = "UserError"
                 /\ state' = "implemented"
            ELSE state \in {"draft", "review", "approved"}
                 => /\ last'.err = "none"
                    /\ state' = "cancelled"
                    /\ UNCHANGED <<change_type, change_line_ids, approved_by,
                                   approval_date, effective_date, rejection_reason,
                                   implementation_notes, bom_line_ids>>]_vars

C12_Witness ==
    /\ last.op = "action_cancel"
    /\ last.err = "UserError"
    /\ state = "implemented"
    /\ implementation_notes # 0

\* what the change line is said to do to the BOM: add appends a line at
\* new_qty, remove deletes the product's line, modify sets the quantity of
\* the product's line to new_qty
C13_SaidLine(bom, line) ==
    LET i == SearchBomLine(bom, line.product_id) IN
    CASE line.action = "add" ->
            Append(bom, [product_id |-> line.product_id, product_qty |-> line.new_qty])
      [] line.action = "remove" -> RemoveAt(bom, i)
      [] line.action = "modify" -> [bom EXCEPT ![i].product_qty = line.new_qty]

RECURSIVE C13_SaidBom(_, _, _)
C13_SaidBom(bom, lines, n) ==
    IF n = 0 THEN bom
    ELSE C13_SaidLine(C13_SaidBom(bom, lines, n - 1), lines[n])

\* C13: a successful action_implement leaves the BOM as the change lines
\* applied one after another make it, every modify line leaving the BOM
\* quantity of its product equal to new_qty, and the ECO implemented.  (As
\* claimed; _modify_component_in_bom writes the quantity only when new_qty
\* differs from the current_qty recorded on the change line.)
C13_ImplementAppliesLines ==
    [][(state = "approved" /\ last'.op = "action_implement" /\ last'.err = "none")
         => /\ bom_line_ids' = C13_SaidBom(bom_line_ids, change_line_ids,
                                           Len(change_line_ids))
            /\ state' = "implemented"]_vars

\* C14: a change line is stored only if its quantities fit its action: an
\* "add" line has current_qty = 0, a "remove" or "modify" line has
\* current_qty > 0, and new_qty >= 0 on every line.
C14_StoredLinesValid ==
    \A i \in 1..Len(change_line_ids) :
        LET line == change_line_ids[i]
        IN /\ line.action = "add" => line.current_qty = 0
           /\ line.action \in {"remove", "modify"} => line.current_qty > 0
           /\ line.new_qty >= 0

\* C15: a plan changes state only along draft -> confirmed -> scheduled ->
\* in_progress -> done, or from a state that is not terminal to cancelled;
\* a method called in any other state leaves the state alone, and done and
\* cancelled are never left.
C15_PlanEdges ==
    {<<"draft", "confirmed">>, <<"confirmed", "scheduled">>,
     <<"scheduled", "in_progress">>, <<"in_progress", "done">>}
        \cup {<<st, "cancelled">> : st \in PlanStates \ {"done", "cancelled"}}

C15_PlanStateFollowsEdges ==
    [][\A p \in PlanIds :
          plans'[p].state # plans[p].state
              => <<plans[p].state, plans'[p].state>> \in C15_PlanEdges]_vars

\* C16: action_schedule called on a confirmed plan gives every plan that is
\* confirmed at the call, the plan itself included, date_start =
\* date_planned and date_end = date_start + estimated_duration.
C16_ScheduleAssignsAllConfirmed ==
    [][(/\ plan_call'.op = "action_schedule"
        /\ plans[plan_call'.plan].state = "confirmed")
          => \A q \in PlanIds :
                plans[q].state = "confirmed"
                    => /\ plans'[q].date_start = plans[q].date_planned
                       /\ plans'[q].date_end =
                              plans[q].date_planned + plans[q].estimated_duration]_vars

\* C17: every plan a scheduling pass processes gets date_start = its own
\* date_planned and date_end = date_start + its estimated_duration,
\* whatever slots the other plans get; overlapping plans are both assigned.
C17_SlotFromOwnPlan ==
    [][plan_call'.op = "action_schedule"
          => \A i \in 1..Len(plan_call'.order) :
                LET q == plan_call'.order[i]
                IN /\ plans'[q].date_start = plans[q].date_planned
                   /\ plans'[q].date_end =
                          plans[q].date_planned + plans[q].estimated_duration]_vars

\* two plans of equal priority planned an hour apart, processed by one
\* priority pass, the earlier one ending after the later one starts
C17_Witness ==
    /\ plan_call.op = "action_schedule"
    /\ plans[plan_call.plan].scheduling_method = "priority"
    /\ \E i, j \in 1..Len(plan_call.order) :
          LET a == plans[plan_call.order[i]]
              b == plans[plan_call.order[j]]
          IN /\ i < j
             /\ a.priority = b.priority
             /\ b.date_planned = a.date_planned + 1
             /\ a.date_start = a.date_planned
             /\ b.date_start = b.date_planned
             /\ a.date_end > b.date_start

\* the dates of all plans
C18_Dates(ps) == [q \in PlanIds |-> <<ps[q].date_start, ps[q].date_end>>]

\* C18: whichever way the search orders plans of equal rank, a scheduling
\* pass leaves the same date_start and date_end on every plan, and a second
\* pass over the plans it left changes no date_start or date_end.
C18_ScheduleDeterministic ==
    [][plan_call'.op = "action_schedule"
          => LET p == plan_call'.plan
                 method == plans[p].scheduling_method
                 found == [plans EXCEPT ![p].state = "scheduled"]
             IN /\ \A pass \in ApplySchedulingAlgorithm(found, method) :
                      C18_Dates(pass.plans) = C18_Dates(plans')
                /\ \A pass \in ApplySchedulingAlgorithm(plans', method) :
                      C18_Dates(pass.plans) = C18_Dates(plans')]_vars

\* a pass over two plans that the search may return in either order
C18_Witness ==
    /\ plan_call.op = "action_schedule"
    /\ Len(plan_call.order) = 2
    /\ Cardinality(ApplySchedulingAlgorithm(
           plans, plans[plan_call.plan].scheduling_method)) > 1

\* C19: a critical_path pass processes the confirmed plans by date_planned
\* ascending and leaves what an fcfs pass leaves.
C19_CriticalPathIsFcfs ==
    [][(/\ plan_call'.op = "action_schedule"
        /\ plans[plan_call'.plan].scheduling_method = "critical_path")
          => LET found == [plans EXCEPT ![plan_call'.plan].state = "scheduled"]
                 order == plan_call'.order
             IN /\ {order[i] : i \in 1..Len(order)} = ConfirmedIds(found)
                /\ \A i, j \in 1..Len(order) :
                      i < j => /\ order[i] # order[j]
                               /\ plans[order[i]].date_planned
                                      <= plans[order[j]].date_planned
                /\ \E pass \in ApplySchedulingAlgorithm(found, "fcfs") :
                      /\ pass.order = order
                      /\ pass.plans = plans']_vars

\* a critical_path pass over two plans of which the one planned later has
\* the higher priority
C19_Witness ==
    /\ plan_call.op = "action_schedule"
    /\ plans[plan_call.plan].scheduling_method = "critical_path"
    /\ Len(plan_call.order) = 2
    /\ LET a == plans[plan_call.order[1]]
           b == plans[plan_call.order[2]]
       IN /\ a.date_planned < b.date_planned
          /\ PriorityRank(a.priority) < PriorityRank(b.priority)
          /\ a.date_start = a.date_planned
          /\ b.date_start = b.date_planned

\* C20: action_confirm leaves the plan confirmed; it either adds one
\* manufacturing order with the plan's product, quantity, BOM and
\* date_planned and raises nothing, or adds none and raises UserError, the
\* plan staying confirmed.
C20_ConfirmCreatesOrderOrRaises ==
    [][plan_call'.op = "action_confirm"
          => LET p == plan_call'.plan
             IN /\ plans'[p].state = "confirmed"
                /\ \/ /\ plan_call'.err = "none"
                      /\ productions' =
                             Append(productions,
                                    [product_id |-> plans[p].product_id,
                                     product_qty |-> plans[p].product_qty,
                                     bom_id |-> plans[p].bom_id,
                                     date_planned_start |-> plans[p].date_planned,
                                     origin |-> plans[p].name])
                   \/ /\ plan_call'.err = "UserError"
                      /\ productions' = productions]_vars

\* a draft plan whose confirmation failed: confirmed, no manufacturing order
C20_Witness ==
    /\ plan_call.op = "action_confirm"
    /\ plan_call.err = "UserError"
    /\ plans[plan_call.plan].state = "confirmed"
    /\ \A i \in 1..Len(productions) : productions[i].origin # plan_call.plan

\* C21: on every BOM the stored total_cost is material_cost + labor_cost +
\* overhead_cost, and overhead_cost is a fifth of material_cost + labor_cost.
C21_CostIdentity ==
    \A b \in DOMAIN boms :
        /\ boms[b].total_cost =
               boms[b].material_cost + boms[b].labor_cost + boms[b].overhead_cost
        /\ 5 * boms[b].overhead_cost = boms[b].material_cost + boms[b].labor_cost

\* a recomputation that left a BOM with material, labor and overhead costs
C21_Witness ==
    /\ "costs" \in bom_call.recomputed
    /\ \E b \in bom_call.boms :
          /\ boms[b].material_cost > 0
          /\ boms[b].labor_cost > 0
          /\ boms[b].overhead_cost > 0

\* the sum of product_qty * standard_price over the first n lines
RECURSIVE C22_Material(_, _, _)
C22_Material(lines, price, n) ==
    IF n = 0
    THEN 0
    ELSE C22_Material(lines, price, n - 1)
         + lines[n].product_qty * price[lines[n].product_id]

\* the sum of time_cycle * costs_hour / 60 over the first n operations, an
\* operation without work center counting nothing
RECURSIVE C22_Labor(_, _, _)
C22_Labor(ops, hour, n) ==
    IF n = 0
    THEN 0
    ELSE C22_Labor(ops, hour, n - 1)
         + (IF ops[n].workcenter_id = "none"
            THEN 0
            ELSE (ops[n].time_cycle * hour[ops[n].workcenter_id]) \div 60)

\* C22: a recomputation of the costs leaves material_cost = the sum of
\* product_qty * standard_price over the lines and labor_cost = the sum of
\* time_cycle * costs_hour / 60 over the operations, an operation without
\* work center or with no hourly cost counting nothing.
C22_CostsAsComputed ==
    []["costs" \in bom_call'.recomputed
          => \A b \in bom_call'.boms :
                /\ boms'[b].material_cost =
                       C22_Material(boms'[b].bom_line_ids, standard_price',
                                    Len(boms'[b].bom_line_ids))
                /\ boms'[b].labor_cost =
                       C22_Labor(boms'[b].operation_ids, costs_hour',
                                 Len(boms'[b].operation_ids))]_vars

\* one line of quantity 2 at price 10 and one operation of 30 minutes at 60
\* an hour: material 20, labor 30, overhead 10, total 60
C22_Witness ==
    /\ "costs" \in bom_call.recomputed
    /\ \E b \in bom_call.boms :
          /\ Len(boms[b].bom_line_ids) = 1
          /\ boms[b].bom_line_ids[1].product_qty = 2
          /\ standard_price[boms[b].bom_line_ids[1].product_id] = 10
          /\ Len(boms[b].operation_ids) = 1
          /\ boms[b].operation_ids[1].time_cycle = 30
          /\ boms[b].operation_ids[1].workcenter_id = "wc"
          /\ costs_hour["wc"] = 60
          /\ boms[b].material_cost = 20
          /\ boms[b].labor_cost = 30
          /\ boms[b].overhead_cost = 10
          /\ boms[b].total_cost = 60

\* the BOMs of the products on the lines of BOM b
C23_Children(bs, b) ==
    {FirstBom(bs[b].bom_line_ids[i].product_id) : i \in 1..Len(bs[b].bom_line_ids)} \ {0}

\* the BOMs reached from the BOMs in from by following n lines or fewer
RECURSIVE C23_Reach(_, _, _)
C23_Reach(bs, from, n) ==
    IF n = 0
    THEN from
    ELSE C23_Reach(bs, from \cup UNION {C23_Children(bs, b) : b \in from}, n - 1)

C23_Acyclic(bs) ==
    \A b \in DOMAIN bs :
        b \notin C23_Reach(bs, C23_Children(bs, b), Cardinality(DOMAIN bs))

\* the depth of BOM b in an acyclic graph: 0 for a BOM without child BOM,
\* one more than its deepest child otherwise
RECURSIVE C23_Depth(_, _)
C23_Depth(bs, b) ==
    IF C23_Children(bs, b) = {}
    THEN 0
    ELSE LET depths == {C23_Depth(bs, c) : c \in C23_Children(bs, b)}
         IN 1 + CHOOSE d \in depths : \A e \in depths : e <= d

\* C23: on an acyclic BOM graph, whatever the order of the lines and
\* whether or not BOMs share a child, a recomputation stores
\* complexity_score = |lines| * 1.0 + |operations| * 1.5 + depth * 2.0 (here
\* in halves), depth being that of the deepest chain of child BOMs.
C23_ComplexityFromDepth ==
    ("complexity" \in bom_call.recomputed /\ C23_Acyclic(boms))
        => \A b \in bom_call.boms :
              boms[b].complexity_score =
                  2 * Len(boms[b].bom_line_ids) + 3 * Len(boms[b].operation_ids)
                      + 4 * C23_Depth(boms, b)

\* C24: creating a line, at any position, or an operation on a BOM never
\* lowers the complexity_score stored on it.
C24_AddingNeverLowersScore ==
    [][bom_call'.op \in {"add_line", "add_operation"}
          => \A b \in bom_call'.boms :
                boms'[b].complexity_score >= boms[b].complexity_score]_vars

\* C25: _get_bom_levels ends on every BOM graph, cyclic ones included: it
\* expands no BOM twice and returns a level between 0 and the number of
\* BOMs.
C25_LevelsEndOnCycles ==
    "complexity" \in bom_call.recomputed
        => \A b \in bom_call.boms :
              /\ \A i, j \in 1..Len(bom_call.visits[b]) :
                    i # j => bom_call.visits[b][i] # bom_call.visits[b][j]
              /\ \E level \in 0..Cardinality(BomIds) :
                    boms[b].complexity_score =
                        2 * Len(boms[b].bom_line_ids)
                            + 3 * Len(boms[b].operation_ids) + 4 * level

\* a recomputation on a BOM that lies on a cycle through another BOM
C25_Witness ==
    /\ "complexity" \in bom_call.recomputed
    /\ \E b \in bom_call.boms :
          /\ b \in C23_Reach(boms, C23_Children(boms, b), Cardinality(BomIds))
          /\ b \notin C23_Children(boms, b)
          /\ Len(bom_call.visits[b]) > 1

\* C26: the costs stored on a BOM are those the cost formulas give on its
\* current lines and operations, prices and hourly costs.
C26_StoredCostsCurrent ==
    \A b \in DOMAIN boms : boms[b] = ComputeCosts(boms[b], standard_price, costs_hour)

\* what one change to new_state is said to emit: one message about the new
\* state, then the notification of the reviewers on review or of the
\* requester on approved and rejected
C27_Emitted(new_state) ==
    <<[call |-> "message_post", state |-> new_state]>>
        \o (CASE new_state = "review" ->
                    <<[call |-> "_notify_reviewers", state |-> new_state]>>
              [] new_state \in {"approved", "rejected"} ->
                    <<[call |-> "_notify_requester", state |-> new_state]>>
              [] OTHER -> <<>>)

\* C27: a call that changes the state of the ECO emits exactly the message
\* and notification of the new state; a call that leaves the state as it
\* was, because it writes the same state or because a constraint rejects
\* its write, emits nothing.
C27_AuditOnlyOnEffectiveChange ==
    [][last' # last
          => IF state' # state
             THEN last'.posted = C27_Emitted(state')
             ELSE last'.posted = <<>>]_vars

\* the ways to interleave the writes of two passes, each pass keeping its
\* own order
RECURSIVE C28_Interleavings(_, _)
C28_Interleavings(a, b) ==
    IF a = <<>>
    THEN {b}
    ELSE IF b = <<>>
    THEN {a}
    ELSE {<<Head(a)>> \o o : o \in C28_Interleavings(Tail(a), b)}
             \cup {<<Head(b)>> \o o : o \in C28_Interleavings(a, Tail(b))}

C28_Dates(ps) == [q \in PlanIds |-> <<ps[q].date_start, ps[q].date_end>>]

\* C28: the date_start and date_end a scheduling pass leaves are those any
\* of the five scheduling methods leaves on the same plans, and those any
\* interleaving of the writes of two passes, of whatever methods, leaves.
C28_PolicyIndependent ==
    [][plan_call'.op = "action_schedule"
          => LET found == [plans EXCEPT ![plan_call'.plan].state = "scheduled"]
                 passes == UNION {ApplySchedulingAlgorithm(found, method) :
                                     method \in SchedulingMethods}
             IN /\ \A pass \in passes : C28_Dates(pass.plans) = C28_Dates(plans')
                /\ \A one, other \in passes :
                      \A o \in C28_Interleavings(one.order, other.order) :
                          C28_Dates(WriteSlots(found, o, 1)) = C28_Dates(plans')]_vars

\* a pass over two plans that the priority and the fcfs method process in
\* opposite orders
C28_Witness ==
    /\ plan_call.op = "action_schedule"
    /\ Len(plan_call.order) = 2
    /\ LET a == plans[plan_call.order[1]]
           b == plans[plan_call.order[2]]
       IN /\ a.date_start = a.date_planned
          /\ b.date_start = b.date_planned
          /\ a.date_planned # b.date_planned
          /\ FirstComeOrders(plans) # PriorityOrders(plans)

\* C29: the target BOM never holds two lines of one product.
C29_OneLinePerProduct ==
    \A i, j \in 1..Len(bom_line_ids) :
        i # j => bom_line_ids[i].product_id # bom_line_ids[j].product_id

\* an implement of two "add" lines of one product on a BOM of another
\* product: the first line added the product, the second one raised
C29_Witness ==
    /\ last.op = "action_implement"
    /\ last.err = "UserError"
    /\ Len(bom_line_ids) = 2
    /\ Len(change_line_ids) = 2
    /\ change_line_ids[1].action = "add"
    /\ change_line_ids[2].action = "add"
    /\ change_line_ids[1].product_id = change_line_ids[2].product_id
    /\ bom_line_ids[2].product_id = change_line_ids[1].product_id

\* C30: a plan whose date_start and date_end are both set has
\* date_start <= date_end.
C30_StartNotAfterEnd ==
    \A p \in DOMAIN plans :
        (plans[p].date_start # 0 /\ plans[p].date_end # 0)
            => plans[p].date_start <= plans[p].date_end

\* C31: an ECO in state approved or implemented has approved_by and
\* approval_date set; an ECO in state draft has approved_by, approval_date
\* and rejection_reason unset.  A successful action_reset_to_draft leaves
\* the ECO in draft, and on an implemented ECO action_reset_to_draft
\* raises UserError.
C31_ApprovalFieldsFollowState ==
    /\ state \in {"approved", "implemented"}
           => (approved_by \in Users /\ approval_date # 0)
    /\ state = "draft"
           => (approved_by = "none" /\ approval_date = 0 /\ rejection_reason = "")
    /\ (last.op = "action_reset_to_draft" /\ last.err = "none")
           => state = "draft"
    /\ (last.op = "action_reset_to_draft" /\ state = "implemented")
           => last.err = "UserError"

\* a reset to draft that left another state (it posted the message of the
\* change), on an ECO whose effective_date is set and for which a rejection
\* wizard was created
C31_Witness ==
    /\ last.op = "action_reset_to_draft"
    /\ last.err = "none"
    /\ last.posted # <<>>
    /\ state = "draft"
    /\ effective_date # 0
    /\ wizard # NoWizard

============================================================================
